---------------------------- MODULE Spec2Model ----------------------------
(***************************************************************************)
(* Model of the AI Flashcard Distiller plugin (src/main.ts, second copy of *)
(* the plugin class, lines 389-677).                                       *)
(*                                                                         *)
(* Strings are sequences of one-character strings, so that prefix tests,   *)
(* trimming and the regular expressions of the source are computed         *)
(* character by character.  One invocation of generateFlashcards is a      *)
(* record in inv; each await of the source is a separate step, the         *)
(* synchronous code between two awaits is one atomic action.               *)
(***************************************************************************)
EXTENDS Integers, Sequences, FiniteSets, TLC

(***************************************************************************)
(* Bounds of the model.                                                    *)
(***************************************************************************)
MaxInv == 2
MaxInvSeq == 1
MaxSettingsChanges == 1

(***************************************************************************)
(* String helpers (JavaScript String methods used by the source).          *)
(***************************************************************************)
Null == <<"<null>">>

Ws == {" ", "\n", "\t"}

Lower(c) ==
    CASE c = "T" -> "t" [] c = "H" -> "h" [] c = "I" -> "i"
      [] c = "N" -> "n" [] c = "K" -> "k" [] OTHER -> c

Drop(s, n) == SubSeq(s, n + 1, Len(s))

Take(s, n) == SubSeq(s, 1, n)

\* String.prototype.startsWith
StartsWith(s, p) == Len(p) <= Len(s) /\ Take(s, Len(p)) = p

\* case-insensitive match of the literal p at offset k (0-based) of s
MatchAtCI(s, k, p) ==
    /\ k + Len(p) <= Len(s)
    /\ \A n \in 1..Len(p) : Lower(s[k + n]) = Lower(p[n])

RECURSIVE TrimStart(_)
TrimStart(s) ==
    IF s # <<>> /\ Head(s) \in Ws THEN TrimStart(Tail(s)) ELSE s

RECURSIVE TrimEnd(_)
TrimEnd(s) ==
    IF s # <<>> /\ s[Len(s)] \in Ws THEN TrimEnd(Take(s, Len(s) - 1)) ELSE s

\* String.prototype.trim
Trim(s) == TrimEnd(TrimStart(s))

\* s.replace(/\/$/, "")
StripTrailingSlash(s) ==
    IF s # <<>> /\ s[Len(s)] = "/" THEN Take(s, Len(s) - 1) ELSE s

\* s.replace(/^#/, "")
StripLeadingHash(s) ==
    IF s # <<>> /\ Head(s) = "#" THEN Tail(s) ELSE s

MdExt == <<".", "m", "d">>

\* s.replace(/\.md$/, "")
RemoveMdExt(s) ==
    IF Len(s) >= Len(MdExt) /\ Drop(s, Len(s) - Len(MdExt)) = MdExt
    THEN Take(s, Len(s) - Len(MdExt)) ELSE s

\* positions of "/" in s
SlashPositions(s) == {n \in 1..Len(s) : s[n] = "/"}

Max(S) == CHOOSE x \in S : \A y \in S : y <= x

Min(S) == CHOOSE x \in S : \A y \in S : x <= y

\* s.split("/").slice(0, -1).join("/")
ParentFolder(s) ==
    IF SlashPositions(s) = {} THEN <<>> ELSE Take(s, Max(SlashPositions(s)) - 1)

ThinkOpen == <<"<", "t", "h", "i", "n", "k", ">">>

ThinkClose == <<"<", "/", "t", "h", "i", "n", "k", ">">>

\* offsets (0-based) at which the closing tag of /^<think>[\s\S]*?<\/think>/i can start
ThinkCloseOffsets(s) ==
    {k \in Len(ThinkOpen)..Len(s) : MatchAtCI(s, k, ThinkClose)}

\* text.replace(/^<think>[\s\S]*?<\/think>\s*/i, "")
StripThinkLazy(s) ==
    IF MatchAtCI(s, 0, ThinkOpen) /\ ThinkCloseOffsets(s) # {}
    THEN TrimStart(Drop(s, Min(ThinkCloseOffsets(s)) + Len(ThinkClose)))
    ELSE s


(***************************************************************************)
(* Data of the bounded model.  Names are shortened: the folder F stands    *)
(* for the default root "Flashcards", F2 for "Flashcards2", T for the      *)
(* default excluded folder "Templates", fc for the default tag             *)
(* "flashcards"; the prefix and segment structure is kept.                 *)
(***************************************************************************)
P_a == <<"a", ".", "m", "d">>

P_e == <<"e", ".", "m", "d">>

P_Fa == <<"F", "/", "a", ".", "m", "d">>

P_F2a == <<"F", "2", "/", "a", ".", "m", "d">>

P_Ta == <<"T", "/", "a", ".", "m", "d">>

P_n == <<"n", ".", "t", "x", "t">>

P_t == <<"t", ".", "m", "d">>

\* content of an artifact written by an earlier run for a.md (tag fc, no header)
OldArtifact == <<"#", "f", "c", "/", "a", "\n", "\n", "o", "l", "d">>

SourceFiles ==
    [p \in {P_a, P_e, P_t, P_F2a, P_Ta, P_n} |->
        CASE p = P_a -> <<"x", " ", "y">>
          [] p = P_e -> <<" ", "\n">>
          [] p = P_t -> <<"\n", "#", "f", "c", "/", "x">>
          [] OTHER -> <<"z">>]

\* DEFAULT_SETTINGS
DEFAULT_SETTINGS ==
    [flashcardRoot |-> <<"F">>,
     flashcardTag |-> <<"f", "c">>,
     selectedProviderId |-> "",
     systemPrompt |-> <<"P">>,
     excludedFolders |-> << <<"T">> >>,
     fileHeader |-> <<>>]

\* the AI Providers service as the plugin finds it
AIEnvs ==
    {[available |-> TRUE, providers |-> <<"p1", "p2">>, main |-> "p2"],
     [available |-> TRUE, providers |-> <<"p3", "p2">>, main |-> "p9"],
     [available |-> TRUE, providers |-> <<>>, main |-> ""],
     [available |-> FALSE, providers |-> <<>>, main |-> ""]}

VARIABLES
    settings,     \* this.settings
    savedData,    \* what saveSettings last handed to saveData
    nChanges,     \* number of settings onChange events so far
    files,        \* the vault: path -> content of each existing file
    folders,      \* the vault: set of existing folder paths
    ai,           \* the AI Providers service
    inv,          \* the invocations of generateFlashcards, in start order
    nRejected,    \* command runs that only showed "No active note found"
    writeLog      \* history: the invocations whose write completed, in order

vars == <<settings, savedData, nChanges, files, folders, ai, inv, nRejected, writeLog>>

(***************************************************************************)
(* Vault helpers (the Obsidian content store as the source uses it).       *)
(***************************************************************************)
FileExists(p) == p \in DOMAIN files

\* TFile.extension: the text after the last dot of the file name
Extension(p) ==
    LET dots == {n \in 1..Len(p) : p[n] = "."}
    IN IF dots = {} THEN <<>> ELSE Drop(p, Max(dots))

\* the folder path and every ancestor of it (createFolder makes them all)
WithAncestors(f) ==
    {Take(f, n - 1) : n \in SlashPositions(f)} \cup {f}

\* vault.adapter.exists(path)
AdapterExists(p) == p \in folders \/ FileExists(p)

(***************************************************************************)
(* shouldSkipFile, src/main.ts 423-433                                     *)
(***************************************************************************)
\* variant that forgets the excluded folders
ShouldSkipFileRootOnly(path, cfg) ==
    LET root == StripTrailingSlash(cfg.flashcardRoot)
    IN StartsWith(path, root \o <<"/">>) \/ path = root

\* variant that tests the raw prefix, without the "/" after it
ShouldSkipFileRawPrefix(path, cfg) ==
    \/ StartsWith(path, StripTrailingSlash(cfg.flashcardRoot))
    \/ \E n \in 1..Len(cfg.excludedFolders) :
          StartsWith(path, StripTrailingSlash(cfg.excludedFolders[n]))

shouldSkipFile(path, cfg) ==
    LET root == StripTrailingSlash(cfg.flashcardRoot)
    IN \/ StartsWith(path, root \o <<"/">>) \/ path = root
       \/ \E n \in 1..Len(cfg.excludedFolders) :
             LET clean == StripTrailingSlash(cfg.excludedFolders[n])
             IN path = clean \/ StartsWith(path, clean \o <<"/">>)


(***************************************************************************)
(* Results of ai.execute.  A raw result is a string, an object with some   *)
(* of the probed fields, null, or another primitive.  A field value is a   *)
(* string or a non-string value that is truthy or falsy.                   *)
(***************************************************************************)
FUndefined == [t |-> "undefined", s |-> <<>>, truthy |-> FALSE]

FStr(s) == [t |-> "string", s |-> s, truthy |-> s # <<>>]

FOther(t) == [t |-> "other", s |-> <<>>, truthy |-> t]

\* the fields probed by extractResponseText, in the order of the || chain
ProbedFields == <<"text", "content", "message", "response", "data", "result">>

FieldNames == {ProbedFields[n] : n \in 1..Len(ProbedFields)}

NoFields == [n \in FieldNames |-> FUndefined]

RString(s) == [kind |-> "string", str |-> s, truthy |-> s # <<>>, fields |-> NoFields]

\* fs: the fields the object has; every other field reads as undefined
RObject(fs) ==
    [kind |-> "object", str |-> <<>>, truthy |-> TRUE,
     fields |-> [n \in FieldNames |-> IF n \in DOMAIN fs THEN fs[n] ELSE FUndefined]]

RNull == [kind |-> "null", str |-> <<>>, truthy |-> FALSE, fields |-> NoFields]

\* a number, boolean, ...: str is what String(raw) gives
ROther(s, t) == [kind |-> "other", str |-> s, truthy |-> t, fields |-> NoFields]

\* an object that refers to itself and has the fields fs
RCyclic(fs) == [RObject(fs) EXCEPT !.kind = "cyclic"]

\* typeof raw === "object" for a non-null raw
IsObject(raw) == raw.kind \in {"object", "cyclic"}

\* the value of an expression whose evaluation threw a TypeError
Thrown == <<"<TypeError>">>

Field(raw, name) == raw.fields[name]

\* a || b || c ...: the first truthy operand, else the last operand
RECURSIVE OrChain(_, _)
OrChain(raw, names) ==
    IF Len(names) = 1 \/ Field(raw, Head(names)).truthy
    THEN Field(raw, Head(names))
    ELSE OrChain(raw, Tail(names))

\* JSON.stringify(raw, null, 2): never empty for an object; throws a
\* TypeError on a cyclic one
JsonDump(raw) == IF raw.kind = "cyclic" THEN Thrown ELSE <<"{">> \o <<"}">>

(***************************************************************************)
(* extractResponseText, src/main.ts 528-541                                *)
(***************************************************************************)
extractResponseText(raw, accumulated) ==
    IF raw.kind = "string" /\ Len(raw.str) > 0 THEN raw.str
    ELSE IF Len(accumulated) > 0 THEN accumulated
    ELSE IF IsObject(raw)
         THEN LET text == OrChain(raw, ProbedFields)
              IN IF text.t = "string" THEN text.s ELSE JsonDump(raw)
    ELSE IF raw.truthy THEN raw.str ELSE Null

\* variant that forgets the trim
IsEmptyResponseNoTrim(text) == text = Null \/ text = <<>>

\* !text?.trim()  (src/main.ts 476)
IsEmptyResponse(text) == text = Null \/ Trim(text) = <<>>

(***************************************************************************)
(* selectProvider, src/main.ts 513-526                                     *)
(***************************************************************************)
InSeq(x, q) == \E n \in 1..Len(q) : q[n] = x

NoProvider == "<none>"

\* variant that prefers the service's main provider to the configured one
SelectProviderMainFirst(svc, cfg) ==
    IF svc.main # "" /\ InSeq(svc.main, svc.providers)
    THEN svc.main
    ELSE IF cfg.selectedProviderId # "" /\ InSeq(cfg.selectedProviderId, svc.providers)
    THEN cfg.selectedProviderId
    ELSE IF svc.providers # <<>> THEN svc.providers[1] ELSE NoProvider

selectProvider(svc, cfg) ==
    IF cfg.selectedProviderId # "" /\ InSeq(cfg.selectedProviderId, svc.providers)
    THEN cfg.selectedProviderId
    ELSE IF svc.main # "" /\ InSeq(svc.main, svc.providers)
    THEN svc.main
    ELSE IF svc.providers # <<>> THEN svc.providers[1] ELSE NoProvider

(***************************************************************************)
(* Sanitation of the response, src/main.ts 482-486                         *)
(***************************************************************************)
\* the same replace with a greedy [\s\S]* : through the last closing tag
StripThinkGreedy(s) ==
    IF MatchAtCI(s, 0, ThinkOpen) /\ ThinkCloseOffsets(s) # {}
    THEN TrimStart(Drop(s, Max(ThinkCloseOffsets(s)) + Len(ThinkClose)))
    ELSE s

\* variant with the greedy quantifier
StripThinkGreedyTrim(s) == Trim(StripThinkGreedy(s))

\* text.replace(/^<think>[\s\S]*?<\/think>\s*/i, "").trim()
StripThink(s) == Trim(StripThinkLazy(s))

BaseTag(cfg) == <<"#">> \o cfg.flashcardTag

\* variant that never finds the cleaned text empty
IsEmptyAfterCleanNever(clean) == FALSE

\* !clean  (src/main.ts 488)
IsEmptyAfterClean(clean) == clean = <<>>

Sanitize(text, cfg) ==
    LET clean == StripThink(text)
    IN IF StartsWith(clean, BaseTag(cfg))
       THEN Trim(Drop(clean, Len(BaseTag(cfg))))
       ELSE clean

(***************************************************************************)
(* saveFlashcards, src/main.ts 543-568: the pure parts                     *)
(***************************************************************************)
\* variant that keeps the trailing slash of the root
TargetPathNoStrip(path, cfg) == cfg.flashcardRoot \o <<"/">> \o path

\* lines 544-545
TargetPath(path, cfg) ==
    StripTrailingSlash(cfg.flashcardRoot) \o <<"/">> \o path

\* variant that writes the tag line without its "#"
TagLineNoHash(path, cfg) ==
    cfg.flashcardTag \o <<"/">> \o RemoveMdExt(path)

\* line 553
TagLine(path, cfg) ==
    <<"#">> \o cfg.flashcardTag \o <<"/">> \o RemoveMdExt(path)

\* variant that writes the header untrimmed
FinalContentNoTrimHeader(path, cfg, content) ==
    TagLine(path, cfg) \o <<"\n", "\n">> \o
    (IF Trim(cfg.fileHeader) # <<>>
     THEN cfg.fileHeader \o <<"\n", "\n">> ELSE <<>>) \o content

\* lines 555-560
FinalContent(path, cfg, content) ==
    TagLine(path, cfg) \o <<"\n", "\n">> \o
    (IF Trim(cfg.fileHeader) # <<>>
     THEN Trim(cfg.fileHeader) \o <<"\n", "\n">> ELSE <<>>) \o content

\* line 443
TagPrefix(cfg) == <<"#">> \o cfg.flashcardTag \o <<"/">>

\* variant that tests the content untrimmed
IsEmptyOrFlashcardNoteNoTrim(content, cfg) ==
    content = <<>> \/ StartsWith(content, TagPrefix(cfg))

\* line 444
IsEmptyOrFlashcardNote(content, cfg) ==
    Trim(content) = <<>> \/ StartsWith(Trim(content), TagPrefix(cfg))


(***************************************************************************)
(* Inputs of the bounded model.                                            *)
(***************************************************************************)
\* cumulative texts delivered by onProgress, each extending the one before
StreamTotals == {<<"s">>, <<"s", "t">>}

Q == <<"Q", ":", "A">>

Q2 == <<"B">>

ThinkOpenUpper == <<"<", "T", "H", "I", "N", "K", ">">>

ThinkCloseMixed == <<"<", "/", "T", "h", "i", "n", "k", ">">>

\* results of ai.execute tried when invocations overlap
Responses ==
    {RString(Q),
     RString(ThinkOpen \o <<"w">> \o ThinkClose \o <<"\n", "\n">> \o Q2)}

\* results of ai.execute tried when invocations run one after the other
AllResponses ==
    Responses \cup
    {RString(<<>>),
     RString(<<" ", "\n">>),
     RString(ThinkOpenUpper \o <<"w">> \o ThinkClose \o <<"v">> \o ThinkCloseMixed
             \o <<" ">> \o Q),
     RString(ThinkOpen \o ThinkClose \o <<"\n">>),
     RString(ThinkOpen \o <<"w">> \o Q),
     RString(<<" ">> \o ThinkOpen \o ThinkClose \o Q \o <<"\n">>),
     RString(<<"#", "f", "c", "\n">> \o Q),
     RObject([content |-> FStr(Q)]),
     RNull,
     \* objects whose earlier fields are empty, falsy or not strings
     RObject([text |-> FStr(<<>>), content |-> FStr(Q2)]),
     RObject([text |-> FOther(TRUE), content |-> FStr(Q)]),
     RObject([text |-> FOther(FALSE)]),
     RObject([result |-> FStr(<<>>)]),
     RCyclic([data |-> FOther(TRUE)]),
     \* the number 42 and the number 0
     ROther(<<"4", "2">>, TRUE),
     ROther(<<"0">>, FALSE),
     \* responses that begin with the tag or with a longer tag
     RString(<<"#", "f", "c", "/", "b", "\n">> \o Q),
     RString(<<"#", "f", "c", "X", " ">> \o Q2),
     RString(<<"#", "f", "c", "\n">>),
     RString(ThinkOpen \o <<"w">> \o ThinkClose \o <<"#", "f", "c", " ">>)}

\* texts typed into the settings tab
RootInputs == {<<"F", "/">>, <<" ", "F", "2", " ">>}

TagInputs == {<<" ", "#", "g", "/">>}

\* tag texts tried when invocations run one after the other
AllTagInputs == TagInputs \cup {<<"#", "#", "g">>, <<"g", "/", "/">>, <<"#", "/">>}

ProviderInputs == {"p1"}

PromptInputs == {<<"R">>}

HeaderInputs == {<<" ", "H", "\n">>}

ExcludedInputs == {<<"T", "/", ",", " ", ",", "F", "2">>}

\* the active item of the workspace: an existing file, or none
NoActive == <<>>

(***************************************************************************)
(* Invocation records.                                                     *)
(***************************************************************************)
Terminals ==
    {"Skipped", "FailedProviderUnavailable", "FailedNoProvider",
     "FailedEmptyResponse", "FailedEmptyAfterSanitize", "FailedException", "Done"}

Terminal(r) == r.pc \in Terminals

Notice(kind, msg) == [kind |-> kind, msg |-> msg]

\* a fresh invocation of generateFlashcards(file)
NewInvocation(file) ==
    [pc |-> "start", file |-> file, content |-> Null, provider |-> NoProvider,
     prompt |-> Null, accumulatedText |-> <<>>, result |-> RNull, text |-> Null,
     clean |-> Null, targetPath |-> Null, folderPath |-> Null,
     finalContent |-> Null, writeOp |-> "none", err |-> "",
     notices |-> <<>>, ops |-> <<>>,
     cleanThink |-> Null,
     \* history, not read by the program: the settings as they were when
     \* each synchronous stretch of the invocation ran
     cfgStart |-> settings, cfgRead |-> settings, cfgRequest |-> settings,
     cfgExec |-> settings, cfgWrite |-> settings,
     doneBefore |-> {k \in 1..Len(inv) : Terminal(inv[k])},
     changesStart |-> nChanges, changesEnd |-> nChanges,
     extracted |-> FALSE, ioFault |-> FALSE, mkdirErr |-> "",
     artifactAfter |-> Null,
     \* history: the messages of the errors thrown by the calls of the
     \* invocation, in order
     raised |-> <<>>]

\* the invocation ends in state pc after showing one notice
Finish(r, pc, n) ==
    [r EXCEPT !.pc = pc, !.notices = Append(@, n), !.changesEnd = nChanges]

\* the catch block of generateFlashcards, src/main.ts 495-498
Catch(r, msg) ==
    [Finish(r, "FailedException", Notice("failed", msg)) EXCEPT !.err = msg]

Op(r, name) == [r EXCEPT !.ops = Append(@, name)]


(***************************************************************************)
(* The synchronous stretches of generateFlashcards and saveFlashcards.     *)
(***************************************************************************)
\* saveFlashcards after the folder step, src/main.ts 553-567: compose the
\* content, look the destination up, and start the modify or the create
IssueWrite(r) ==
    LET op == IF FileExists(r.targetPath) THEN "modify" ELSE "create"
    IN Op([r EXCEPT !.pc = "writing", !.cfgWrite = settings,
                    !.finalContent = FinalContent(r.file, settings, r.clean),
                    !.writeOp = op], op)

\* variant that starts the write first and looks for the folder afterwards
BeginSaveWriteFirst(r) ==
    LET tp == TargetPath(r.file, settings)
        r1 == [r EXCEPT !.targetPath = tp, !.folderPath = ParentFolder(tp)]
    IN Op(IssueWrite(r1), "exists")

\* saveFlashcards up to its first await, src/main.ts 544-549
BeginSave(r) ==
    LET tp == TargetPath(r.file, settings)
        r1 == [r EXCEPT !.targetPath = tp, !.folderPath = ParentFolder(tp)]
    IN IF r1.folderPath # <<>>
       THEN Op([r1 EXCEPT !.pc = "existsCheck"], "exists")
       ELSE IssueWrite(r1)

\* generateFlashcards after ai.execute returned raw, src/main.ts 474-493
AfterExecute(r, raw) ==
    LET text == extractResponseText(raw, r.accumulatedText)
        r1 == [r EXCEPT !.result = raw, !.text = text, !.extracted = TRUE,
                        !.cfgExec = settings]
    IN IF text = Thrown
       THEN Catch([r EXCEPT !.result = raw, !.cfgExec = settings,
                            !.raised = Append(@, "TypeError")], "TypeError")
       ELSE IF IsEmptyResponse(text)
       THEN Finish(r1, "FailedEmptyResponse", Notice("empty-response", ""))
       ELSE LET r2 == [r1 EXCEPT !.cleanThink = StripThink(text),
                                 !.clean = Sanitize(text, settings)]
            IN IF IsEmptyAfterClean(r2.clean)
               THEN Finish(r2, "FailedEmptyAfterSanitize", Notice("empty-after-clean", ""))
               ELSE BeginSave(r2)

\* variant that keeps waiting for a service that is not available
AfterProvidersWaitForever(r) ==
    IF ~ai.available
    THEN r
    ELSE LET provider == selectProvider(ai, settings)
         IN IF provider = NoProvider
            THEN Finish(Op(r, "providers"), "FailedNoProvider", Notice("no-provider", ""))
            ELSE Op([Op(r, "providers") EXCEPT
                        !.pc = "generating", !.cfgRequest = settings,
                        !.provider = provider,
                        !.notices = Append(@, Notice("distilling", "")),
                        !.prompt = settings.systemPrompt \o <<"\n", "\n">> \o r.content],
                    "request")

\* generateFlashcards once the provider service is known, src/main.ts 450-472
AfterProviders(r) ==
    IF ~ai.available
    THEN Finish(Op(r, "providers"), "FailedProviderUnavailable", Notice("no-ai", ""))
    ELSE LET provider == selectProvider(ai, settings)
         IN IF provider = NoProvider
            THEN Finish(Op(r, "providers"), "FailedNoProvider", Notice("no-provider", ""))
            ELSE Op([Op(r, "providers") EXCEPT
                        !.pc = "generating", !.cfgRequest = settings,
                        !.provider = provider,
                        !.notices = Append(@, Notice("distilling", "")),
                        !.prompt = settings.systemPrompt \o <<"\n", "\n">> \o r.content],
                    "request")

\* generateFlashcards after vault.read returned, src/main.ts 442-449
AfterRead(r, content) ==
    LET r1 == [r EXCEPT !.content = content, !.cfgRead = settings]
    IN IF IsEmptyOrFlashcardNote(content, settings)
       THEN Finish(r1, "Skipped", Notice("skip-content", ""))
       ELSE [r1 EXCEPT !.pc = "awaitAI"]

\* variant that starts the read before the skip check
BeginGenerateReadFirst(file) ==
    LET r == Op(Op(NewInvocation(file), "read"), "skipcheck")
    IN IF shouldSkipFile(file, settings)
       THEN Finish(r, "Skipped", Notice("skip-path", ""))
       ELSE [r EXCEPT !.pc = "reading"]

\* generateFlashcards up to its first await, src/main.ts 435-442
BeginGenerate(file) ==
    LET r == Op(NewInvocation(file), "skipcheck")
    IN IF shouldSkipFile(file, settings)
       THEN Finish(r, "Skipped", Notice("skip-path", ""))
       ELSE Op([r EXCEPT !.pc = "reading"], "read")

(***************************************************************************)
(* Actions.                                                                *)
(***************************************************************************)
\* the vault after an earlier run left an artifact for a.md
SourceFilesAndArtifact ==
    [p \in DOMAIN SourceFiles \cup {P_Fa} |->
        IF p = P_Fa THEN OldArtifact ELSE SourceFiles[p]]

Init ==
    /\ settings = DEFAULT_SETTINGS
    /\ savedData = DEFAULT_SETTINGS
    /\ nChanges = 0
    /\ \/ files = SourceFiles /\ folders = {<<"F", "2">>, <<"T">>}
       \/ /\ files = SourceFilesAndArtifact
          /\ folders = {<<"F", "2">>, <<"T">>, <<"F">>}
    /\ ai \in AIEnvs
    /\ inv = <<>>
    /\ nRejected = 0
    /\ writeLog = <<>>

\* variant that accepts every active file
IsMarkdownFileAny(active) == active # NoActive

\* activeFile instanceof TFile && activeFile.extension === "md"
IsMarkdownFile(active) == active # NoActive /\ Extension(active) = <<"m", "d">>

\* the command callback with a markdown file active, src/main.ts 401-404
CommandStart(active) ==
    /\ Len(inv) + nRejected < MaxInv
    /\ IsMarkdownFile(active)
    /\ inv' = Append(inv, BeginGenerate(active))
    /\ UNCHANGED <<settings, savedData, nChanges, files, folders, ai, nRejected, writeLog>>

\* the command callback otherwise, src/main.ts 405-407
CommandUnavailable(active) ==
    /\ Len(inv) + nRejected < MaxInv
    /\ ~IsMarkdownFile(active)
    /\ nRejected' = nRejected + 1
    /\ UNCHANGED <<settings, savedData, nChanges, files, folders, ai, inv, writeLog>>

\* vault.read resolves
ReadReturn(i) ==
    /\ inv[i].pc = "reading"
    /\ inv' = [inv EXCEPT ![i] = AfterRead(@, files[@.file])]
    /\ UNCHANGED <<settings, savedData, nChanges, files, folders, ai, nRejected, writeLog>>

\* vault.read rejects
ReadThrows(i) ==
    /\ inv[i].pc = "reading"
    /\ inv' = [inv EXCEPT ![i] = Catch([@ EXCEPT !.ioFault = TRUE, !.raised = Append(@, "read failed")],
                        "read failed")]
    /\ UNCHANGED <<settings, savedData, nChanges, files, folders, ai, nRejected, writeLog>>

\* getAIProviders resolves
ProvidersReturn(i) ==
    /\ inv[i].pc = "awaitAI"
    /\ inv' = [inv EXCEPT ![i] = AfterProviders(@)]
    /\ UNCHANGED <<settings, savedData, nChanges, files, folders, ai, nRejected, writeLog>>

\* the onProgress callback, src/main.ts 469-471
OnProgress(i, total) ==
    /\ inv[i].pc = "generating"
    /\ StartsWith(total, inv[i].accumulatedText) /\ total # inv[i].accumulatedText
    /\ inv' = [inv EXCEPT ![i].accumulatedText = total]
    /\ UNCHANGED <<settings, savedData, nChanges, files, folders, ai, nRejected, writeLog>>

\* ai.execute resolves with raw
ExecuteReturn(i, raw) ==
    /\ inv[i].pc = "generating"
    /\ inv' = [inv EXCEPT ![i] = AfterExecute(@, raw)]
    /\ UNCHANGED <<settings, savedData, nChanges, files, folders, ai, nRejected, writeLog>>

\* ai.execute rejects
ExecuteThrows(i) ==
    /\ inv[i].pc = "generating"
    /\ inv' = [inv EXCEPT ![i] = Catch([@ EXCEPT !.ioFault = TRUE, !.raised = Append(@, "execute failed")],
                        "execute failed")]
    /\ UNCHANGED <<settings, savedData, nChanges, files, folders, ai, nRejected, writeLog>>

\* vault.adapter.exists(folderPath) resolves, src/main.ts 549-550
ExistsReturn(i) ==
    /\ inv[i].pc = "existsCheck"
    /\ inv' = [inv EXCEPT ![i] =
                  IF AdapterExists(@.folderPath)
                  THEN IssueWrite(@)
                  ELSE Op([@ EXCEPT !.pc = "mkdir"], "createFolder")]
    /\ UNCHANGED <<settings, savedData, nChanges, files, folders, ai, nRejected, writeLog>>

\* vault.adapter.exists(folderPath) rejects
ExistsThrows(i) ==
    /\ inv[i].pc = "existsCheck"
    /\ inv' = [inv EXCEPT ![i] =
                  Catch([@ EXCEPT !.ioFault = TRUE, !.raised = Append(@, "exists failed")],
                        "exists failed")]
    /\ UNCHANGED <<settings, savedData, nChanges, files, folders, ai, nRejected, writeLog>>

\* vault.createFolder(folderPath) resolves: the folder and its ancestors exist
MkdirOk(i) ==
    /\ inv[i].pc = "mkdir"
    /\ ~AdapterExists(inv[i].folderPath)
    /\ folders' = folders \cup WithAncestors(inv[i].folderPath)
    /\ inv' = [inv EXCEPT ![i] = IssueWrite(@)]
    /\ UNCHANGED <<settings, savedData, nChanges, files, ai, nRejected, writeLog>>

\* vault.createFolder(folderPath) rejects, because the folder exists by now or
\* for another reason; .catch(() => { }) swallows either, src/main.ts 550
MkdirRejected(i) ==
    /\ inv[i].pc = "mkdir"
    /\ inv' = [inv EXCEPT ![i] =
                  IssueWrite([@ EXCEPT
                      !.mkdirErr =
                          IF AdapterExists(inv[i].folderPath) THEN "exists" ELSE "other",
                      !.raised = Append(@, "createFolder failed")])]
    /\ UNCHANGED <<settings, savedData, nChanges, files, folders, ai, nRejected, writeLog>>

\* the vault after path holds content
WithFile(path, content) ==
    [p \in DOMAIN files \cup {path} |-> IF p = path THEN content ELSE files[p]]

\* variant that appends to the file instead of replacing its content
WrittenAppend(r) ==
    IF FileExists(r.targetPath)
    THEN files[r.targetPath] \o r.finalContent ELSE r.finalContent

\* what vault.modify / vault.create leaves in the file
Written(r) == r.finalContent

\* vault.modify or vault.create resolves, src/main.ts 564-566, then line 494.
\* A create needs its parent folder; one that finds the file already there
\* may also be rejected (WriteRejected).
WriteReturn(i) ==
    /\ inv[i].pc = "writing"
    /\ \/ inv[i].writeOp = "modify"
       \/ /\ inv[i].writeOp = "create"
          /\ inv[i].folderPath = <<>> \/ inv[i].folderPath \in folders
    /\ files' = WithFile(inv[i].targetPath, Written(inv[i]))
    /\ inv' = [inv EXCEPT ![i] =
                  [Finish(@, "Done", Notice("success", "")) EXCEPT
                      !.artifactAfter = files'[inv[i].targetPath]]]
    /\ writeLog' = Append(writeLog, i)
    /\ UNCHANGED <<settings, savedData, nChanges, folders, ai, nRejected>>

\* vault.create rejects: the file exists by now, or the folder is missing
CreateRejected(i) ==
    /\ inv[i].pc = "writing" /\ inv[i].writeOp = "create"
    /\ \/ /\ FileExists(inv[i].targetPath)
          /\ inv' = [inv EXCEPT ![i] =
                        Catch([@ EXCEPT !.raised = Append(@, "File already exists.")],
                              "File already exists.")]
       \/ /\ inv[i].folderPath # <<>> /\ inv[i].folderPath \notin folders
          /\ inv' = [inv EXCEPT ![i] =
                        Catch([@ EXCEPT !.raised = Append(@, "ENOENT")], "ENOENT")]
    /\ UNCHANGED <<settings, savedData, nChanges, files, folders, ai, nRejected, writeLog>>

\* the vault after a write was rejected: the write is all or nothing
FilesAfterFailedWrite(r) == files

\* vault.modify or vault.create rejects with an I/O error
WriteThrows(i) ==
    /\ inv[i].pc = "writing"
    /\ inv' = [inv EXCEPT ![i] =
                  Catch([@ EXCEPT !.ioFault = TRUE, !.raised = Append(@, "write failed")],
                        "write failed")]
    /\ files' = FilesAfterFailedWrite(inv[i])
    /\ UNCHANGED <<settings, savedData, nChanges, folders, ai, nRejected, writeLog>>

(***************************************************************************)
(* The settings tab, src/main.ts 579-677.  Every onChange assigns the      *)
(* setting and saves.                                                      *)
(***************************************************************************)
\* v.split(",")
RECURSIVE SplitComma(_)
SplitComma(v) ==
    LET commas == {n \in 1..Len(v) : v[n] = ","}
    IN IF commas = {} THEN <<v>>
       ELSE <<Take(v, Min(commas) - 1)>> \o SplitComma(Drop(v, Min(commas)))

\* .map((s) => s.trim()).filter(Boolean)
RECURSIVE TrimAndFilter(_)
TrimAndFilter(q) ==
    IF q = <<>> THEN <<>>
    ELSE (IF Trim(Head(q)) = <<>> THEN <<>> ELSE <<Trim(Head(q))>>)
         \o TrimAndFilter(Tail(q))

\* variant that forgets to strip the trailing slash
NormalizeTagKeepSlash(v) == StripLeadingHash(Trim(v))

\* v.trim().replace(/^#/, "").replace(/\/$/, ""), src/main.ts 604
NormalizeTag(v) == StripTrailingSlash(StripLeadingHash(Trim(v)))

ChangeSetting(new) ==
    /\ nChanges < MaxSettingsChanges
    /\ nChanges' = nChanges + 1
    /\ settings' = new
    /\ savedData' = new
    /\ UNCHANGED <<files, folders, ai, inv, nRejected, writeLog>>

SetFlashcardRoot(v) == ChangeSetting([settings EXCEPT !.flashcardRoot = Trim(v)])

SetFlashcardTag(v) == ChangeSetting([settings EXCEPT !.flashcardTag = NormalizeTag(v)])

SetSelectedProvider(v) == ChangeSetting([settings EXCEPT !.selectedProviderId = v])

SetSystemPrompt(v) == ChangeSetting([settings EXCEPT !.systemPrompt = v])

SetFileHeader(v) == ChangeSetting([settings EXCEPT !.fileHeader = v])

SetExcludedFolders(v) ==
    ChangeSetting([settings EXCEPT !.excludedFolders = TrimAndFilter(SplitComma(v))])

\* the items made active when invocations overlap
ActiveItems == {P_a, P_Ta, P_Fa, P_n} \cap DOMAIN files

\* invocations may overlap; few active items, results and progress texts
Next ==
    \/ \E active \in ActiveItems : CommandStart(active)
    \/ \E active \in ActiveItems : CommandUnavailable(active)
    \/ \E i \in 1..Len(inv) : ReadReturn(i)
    \/ \E i \in 1..Len(inv) : ReadThrows(i)
    \/ \E i \in 1..Len(inv) : ProvidersReturn(i)
    \/ \E i \in 1..Len(inv) : OnProgress(i, <<"s">>)
    \/ \E i \in 1..Len(inv), raw \in Responses : ExecuteReturn(i, raw)
    \/ \E i \in 1..Len(inv) : ExecuteThrows(i)
    \/ \E i \in 1..Len(inv) : ExistsReturn(i)
    \/ \E i \in 1..Len(inv) : ExistsThrows(i)
    \/ \E i \in 1..Len(inv) : MkdirOk(i)
    \/ \E i \in 1..Len(inv) : MkdirRejected(i)
    \/ \E i \in 1..Len(inv) : WriteReturn(i)
    \/ \E i \in 1..Len(inv) : CreateRejected(i)
    \/ \E i \in 1..Len(inv) : WriteThrows(i)
    \/ \E v \in RootInputs : SetFlashcardRoot(v)
    \/ \E v \in TagInputs : SetFlashcardTag(v)
    \/ \E v \in ProviderInputs : SetSelectedProvider(v)
    \/ \E v \in PromptInputs : SetSystemPrompt(v)
    \/ \E v \in HeaderInputs : SetFileHeader(v)
    \/ \E v \in ExcludedInputs : SetExcludedFolders(v)

\* the command is run again only after the earlier invocations have ended
Sequential ==
    /\ Len(inv) + nRejected < MaxInvSeq
    /\ \A k \in 1..Len(inv) : Terminal(inv[k])

\* one invocation at a time; all results and progress texts
NextSeq ==
    \/ \E active \in DOMAIN files \cup {NoActive} : Sequential /\ CommandStart(active)
    \/ \E active \in DOMAIN files \cup {NoActive} : Sequential /\ CommandUnavailable(active)
    \/ \E i \in 1..Len(inv) : ReadReturn(i)
    \/ \E i \in 1..Len(inv) : ReadThrows(i)
    \/ \E i \in 1..Len(inv) : ProvidersReturn(i)
    \/ \E i \in 1..Len(inv), total \in StreamTotals : OnProgress(i, total)
    \/ \E i \in 1..Len(inv), raw \in AllResponses : ExecuteReturn(i, raw)
    \/ \E i \in 1..Len(inv) : ExecuteThrows(i)
    \/ \E i \in 1..Len(inv) : ExistsReturn(i)
    \/ \E i \in 1..Len(inv) : ExistsThrows(i)
    \/ \E i \in 1..Len(inv) : MkdirOk(i)
    \/ \E i \in 1..Len(inv) : MkdirRejected(i)
    \/ \E i \in 1..Len(inv) : WriteReturn(i)
    \/ \E i \in 1..Len(inv) : CreateRejected(i)
    \/ \E i \in 1..Len(inv) : WriteThrows(i)
    \/ \E v \in RootInputs : SetFlashcardRoot(v)
    \/ \E v \in AllTagInputs : SetFlashcardTag(v)
    \/ \E v \in ProviderInputs : SetSelectedProvider(v)
    \/ \E v \in PromptInputs : SetSystemPrompt(v)
    \/ \E v \in HeaderInputs : SetFileHeader(v)
    \/ \E v \in ExcludedInputs : SetExcludedFolders(v)

Spec == Init /\ [][Next]_vars

SpecSeq == Init /\ [][NextSeq]_vars

\* the pending external call of invocation i returns or throws
Return(i) ==
    /\ i \in 1..Len(inv)
    /\ \/ ReadReturn(i) \/ ReadThrows(i)
       \/ ProvidersReturn(i)
       \/ \E raw \in AllResponses : ExecuteReturn(i, raw)
       \/ ExecuteThrows(i)
       \/ ExistsReturn(i) \/ ExistsThrows(i)
       \/ MkdirOk(i) \/ MkdirRejected(i)
       \/ WriteReturn(i) \/ CreateRejected(i) \/ WriteThrows(i)

\* every promise an invocation awaits is settled at some time
SpecLive ==
    Init /\ [][NextSeq]_vars /\ \A i \in 1..MaxInvSeq : WF_vars(Return(i))


(***************************************************************************)
(* Properties.  The helpers below restate the specification's wording on   *)
(* their own terms, not through the operators that model the code.         *)
(***************************************************************************)
Invocations == 1..Len(inv)

\* s.split("/"): the path segments of s
RECURSIVE Segments(_)
Segments(s) ==
    IF SlashPositions(s) = {} THEN <<s>>
    ELSE <<Take(s, Min(SlashPositions(s)) - 1)>>
         \o Segments(Drop(s, Min(SlashPositions(s))))

IsPrefixSeq(a, b) == Len(a) <= Len(b) /\ \A n \in 1..Len(a) : a[n] = b[n]

WithoutTrailingSlash(e) ==
    IF Len(e) > 0 /\ e[Len(e)] = "/" THEN SubSeq(e, 1, Len(e) - 1) ELSE e

\* the output root and the excluded folders of a configuration
SkipEntries(cfg) ==
    {cfg.flashcardRoot} \cup {cfg.excludedFolders[n] : n \in 1..Len(cfg.excludedFolders)}

\* path is the folder e or lies under it, by whole segments
EqualsOrNestedUnder(path, e) ==
    IsPrefixSeq(Segments(WithoutTrailingSlash(e)), Segments(path))

LocatedUnderSkipEntry(path, cfg) ==
    \E e \in SkipEntries(cfg) : EqualsOrNestedUnder(path, e)

\* the invocation was stopped by the path check of line 436
SkippedByPath(r) ==
    r.pc = "Skipped" /\ r.notices = <<Notice("skip-path", "")>>

\* the invocation never touched the vault beyond the operations in allowed
OnlyOps(r, allowed) == \A n \in 1..Len(r.ops) : r.ops[n] \in allowed

HasOp(r, name) == \E n \in 1..Len(r.ops) : r.ops[n] = name

Wrote(i) == \E n \in 1..Len(writeLog) : writeLog[n] = i

\* the mirrored destination of a source path under an output root
Mirror(root, path) == WithoutTrailingSlash(root) \o <<"/">> \o path

\* C1: an invocation on a file that equals or lies under the output root or
\* an excluded folder (configuration at the start of the invocation) ends
\* Skipped; the file is never read, no generation request is issued and no
\* folder or file is created or modified.
C1_ExcludedNeverRead ==
    \A i \in Invocations :
        LocatedUnderSkipEntry(inv[i].file, inv[i].cfgStart) =>
            /\ inv[i].pc = "Skipped"
            /\ inv[i].ops = <<"skipcheck">>
            /\ inv[i].content = Null /\ inv[i].prompt = Null
            /\ inv[i].writeOp = "none" /\ ~Wrote(i)

\* Scenario B: Templates/Daily.md with excluded folder Templates
C1_Witness ==
    \E i \in Invocations :
        /\ inv[i].file = P_Ta
        /\ InSeq(<<"T">>, inv[i].cfgStart.excludedFolders)
        /\ inv[i].pc = "Skipped" /\ inv[i].ops = <<"skipcheck">>

\* C2: shouldSkipFile(path) is true exactly when, for the output root or an
\* excluded folder e (trailing slash stripped), path = e or path starts with
\* e + "/"; this is the test by whole path segments.
C2_SkipIffUnderEntry ==
    \A i \in Invocations :
        LET path == inv[i].file
            literal ==
                \E f \in SkipEntries(inv[i].cfgStart) :
                    LET e == WithoutTrailingSlash(f)
                    IN \/ path = e
                       \/ /\ Len(path) > Len(e)
                          /\ SubSeq(path, 1, Len(e) + 1) = e \o <<"/">>
        IN /\ SkippedByPath(inv[i]) <=> literal
           /\ literal <=> LocatedUnderSkipEntry(path, inv[i].cfgStart)

\* Flashcards2/x.md with root Flashcards is not skipped by its path
C2_Witness ==
    \E i \in Invocations :
        /\ inv[i].file = P_F2a
        /\ inv[i].cfgStart.flashcardRoot = <<"F">>
        /\ ~SkippedByPath(inv[i])
        /\ HasOp(inv[i], "read")

\* C3: every file create or modify of an invocation targets the output root
\* (as saveFlashcards read it, trailing slash stripped) + "/" + the full path
\* of the invocation's source file, and no file of the vault changes at any
\* other path.
C3_MirroredTree ==
    [][/\ \A i \in 1..Len(inv') :
             inv'[i].writeOp # "none" =>
                 inv'[i].targetPath
                     = Mirror(inv'[i].cfgExec.flashcardRoot, inv'[i].file)
       /\ \A p \in DOMAIN files' :
             (p \notin DOMAIN files \/ files'[p] # files[p]) =>
                 \E i \in Invocations :
                     /\ inv[i].pc = "writing" /\ inv'[i].pc = "Done"
                     /\ p = Mirror(inv[i].cfgExec.flashcardRoot, inv[i].file)]_vars

\* a write under the root typed as "F/" lands at F/a.md
C3_Witness ==
    \E i \in Invocations :
        /\ inv[i].pc = "Done" /\ inv[i].file = P_a
        /\ inv[i].cfgExec.flashcardRoot = <<"F", "/">>
        /\ inv[i].targetPath = P_Fa
        /\ files[P_Fa] = inv[i].finalContent

\* j overlapped no other invocation
RanAlone(j) ==
    \A k \in Invocations \ {j} : k \in inv[j].doneBefore \/ j \in inv[k].doneBefore

\* j is a second run after the successful run i: same source file and
\* content, configuration unchanged since i started, same model response
SecondRunOf(i, j) ==
    /\ i \in inv[j].doneBefore /\ inv[i].pc = "Done"
    /\ Terminal(inv[j]) /\ RanAlone(j) /\ ~inv[j].ioFault
    /\ inv[j].file = inv[i].file /\ inv[j].content = inv[i].content
    /\ inv[j].changesEnd = inv[i].changesStart
    /\ inv[j].extracted
    /\ inv[j].result = inv[i].result
    /\ inv[j].accumulatedText = inv[i].accumulatedText

\* C4: a second run on the same source with unchanged content, unchanged
\* configuration and the same model response succeeds and leaves the same
\* artifact as the first run.
C4_Idempotent ==
    \A i, j \in Invocations :
        SecondRunOf(i, j) =>
            /\ inv[j].pc = "Done"
            /\ inv[j].targetPath = inv[i].targetPath
            /\ inv[j].artifactAfter = inv[i].artifactAfter
            /\ writeLog[Len(writeLog)] = j =>
                   files[inv[j].targetPath] = inv[i].artifactAfter

C4_Witness ==
    \E i, j \in Invocations :
        /\ SecondRunOf(i, j)
        /\ inv[j].pc = "Done" /\ inv[j].writeOp = "modify"
        /\ inv[i].writeOp = "create"

\* C5: when an invocation reaches Done, the file at its destination holds
\* exactly the content it composed: an existing file was modified with a full
\* replace, a missing one was created.
C5_CreateOrOverwrite ==
    [][\A i \in Invocations :
          (inv[i].pc # "Done" /\ inv'[i].pc = "Done") =>
              /\ inv[i].targetPath \in DOMAIN files'
              /\ files'[inv[i].targetPath] = inv[i].finalContent
              /\ inv[i].pc = "writing"
              /\ (inv[i].writeOp = "modify" => inv[i].targetPath \in DOMAIN files)
              /\ \A p \in DOMAIN files \ {inv[i].targetPath} :
                    p \in DOMAIN files' /\ files'[p] = files[p]]_vars

\* Scenario E: a prior artifact was there and is fully replaced
C5_Witness ==
    \E i \in Invocations :
        /\ inv[i].pc = "Done" /\ inv[i].writeOp = "modify"
        /\ inv[i].targetPath = P_Fa
        /\ files[P_Fa] = inv[i].finalContent
        /\ files[P_Fa] # OldArtifact


\* C6: an empty string result with nothing streamed, and in general an
\* extracted text that is null or empty after trimming, ends the invocation
\* in Failed(EmptyResponse); it touches no folder or file, so an artifact
\* already at the destination keeps its content.
C6_EmptyResponseFails ==
    \A i \in Invocations :
        inv[i].extracted =>
            /\ (inv[i].result = RString(<<>>) /\ inv[i].accumulatedText = <<>>)
                   => inv[i].text = Null
            /\ (inv[i].text = Null \/ Trim(inv[i].text) = <<>>) =>
                   /\ inv[i].pc = "FailedEmptyResponse"
                   /\ inv[i].notices[Len(inv[i].notices)] = Notice("empty-response", "")
                   /\ OnlyOps(inv[i], {"skipcheck", "read", "providers", "request"})
                   /\ inv[i].writeOp = "none" /\ ~Wrote(i)
                   /\ writeLog = <<>> => files \in {SourceFiles, SourceFilesAndArtifact}

\* Scenario D, with a prior artifact at the destination
C6_Witness ==
    \E i \in Invocations :
        /\ inv[i].file = P_a /\ inv[i].extracted
        /\ inv[i].result = RString(<<>>) /\ inv[i].accumulatedText = <<>>
        /\ inv[i].pc = "FailedEmptyResponse"
        /\ P_Fa \in DOMAIN files /\ files[P_Fa] = OldArtifact

\* C7: a source whose content is empty after trimming, or begins (after
\* trimming) with "#<flashcardTag>/", ends the invocation in Skipped right
\* after the read: no provider is resolved, no request issued, nothing written.
C7_ContentCheckSkips ==
    \A i \in Invocations :
        inv[i].content # Null =>
            LET t == Trim(inv[i].content)
                marker == <<"#">> \o inv[i].cfgRead.flashcardTag \o <<"/">>
            IN (t = <<>> \/ IsPrefixSeq(marker, t)) =>
                   /\ inv[i].pc = "Skipped"
                   /\ inv[i].ops = <<"skipcheck", "read">>
                   /\ inv[i].provider = NoProvider /\ inv[i].prompt = Null
                   /\ inv[i].writeOp = "none" /\ ~Wrote(i)

\* a note that begins, after leading whitespace, with the tag marker
C7_Witness ==
    \E i \in Invocations :
        /\ inv[i].file = P_t /\ inv[i].content = SourceFiles[P_t]
        /\ inv[i].content[1] \in Ws
        /\ inv[i].pc = "Skipped" /\ inv[i].ops = <<"skipcheck", "read">>

\* the ends (0-based, exclusive) of the "<think>...</think>" spans that start
\* at the beginning of text, matched case-insensitively
ThinkSpanEnds(text) ==
    IF MatchAtCI(text, 0, ThinkOpen)
    THEN {k + Len(ThinkClose) : k \in ThinkCloseOffsets(text)}
    ELSE {}

\* C8 as stated: the leading think span is removed greedily, that is through
\* the last closing tag, with the whitespace after it; the rest is trimmed.
C8_GreedyStrip ==
    \A i \in Invocations :
        inv[i].cleanThink # Null =>
            inv[i].cleanThink =
                IF ThinkSpanEnds(inv[i].text) # {}
                THEN Trim(Drop(inv[i].text, Max(ThinkSpanEnds(inv[i].text))))
                ELSE Trim(inv[i].text)

\* C8 amended: the leading think span is removed through its first closing
\* tag (shortest match), with the whitespace after it, and the rest is
\* trimmed; a response without a leading think span is only trimmed.
C8_LazyStrip ==
    \A i \in Invocations :
        inv[i].cleanThink # Null =>
            inv[i].cleanThink =
                IF ThinkSpanEnds(inv[i].text) # {}
                THEN Trim(Drop(inv[i].text, Min(ThinkSpanEnds(inv[i].text))))
                ELSE Trim(inv[i].text)

\* a response with two closing tags keeps what follows the first one
C8_Witness ==
    \E i \in Invocations :
        /\ Cardinality(ThinkSpanEnds(inv[i].text)) = 2
        /\ inv[i].cleanThink = <<"v">> \o ThinkCloseMixed \o <<" ">> \o Q

\* C9: the artifact is "#<flashcardTag>/<source path without .md>", a blank
\* line, the trimmed header and a blank line if the header is not blank, then
\* the sanitized output verbatim; it is what the file holds after the write.
C9_ArtifactFormat ==
    \A i \in Invocations :
        inv[i].finalContent # Null =>
            LET path == inv[i].file
                cfg == inv[i].cfgWrite
                tagLine == <<"#">> \o cfg.flashcardTag \o <<"/">>
                           \o SubSeq(path, 1, Len(path) - 3)
                header == Trim(cfg.fileHeader)
            IN /\ SubSeq(path, Len(path) - 2, Len(path)) = <<".", "m", "d">>
               /\ inv[i].finalContent =
                      tagLine \o <<"\n", "\n">>
                      \o (IF header # <<>> THEN header \o <<"\n", "\n">> ELSE <<>>)
                      \o inv[i].clean
               /\ inv[i].pc = "Done" => inv[i].artifactAfter = inv[i].finalContent

\* Scenario A with a header: F2/a.md under root F and tag fc
C9_Witness ==
    \E i \in Invocations :
        /\ inv[i].pc = "Done" /\ inv[i].file = P_F2a
        /\ inv[i].targetPath = <<"F", "/">> \o P_F2a
        /\ inv[i].clean = Q
        /\ files[inv[i].targetPath] =
               <<"#", "f", "c", "/", "F", "2", "/", "a", "\n", "\n", "H", "\n", "\n">> \o Q

\* neither invocation had ended when the other one started
Overlapped(i, j) == i \notin inv[j].doneBefore /\ j \notin inv[i].doneBefore

\* the invocation ended without a fault of the vault or the service
NoStoreFault(r) == ~r.ioFault /\ r.mkdirErr # "other"

\* the last invocation whose write to path completed
LastWriter(path) ==
    LET ws == {n \in 1..Len(writeLog) : inv[writeLog[n]].targetPath = path}
    IN writeLog[Max(ws)]

\* C10: two overlapping invocations on the same source file that both reach
\* the commit step both complete their write without failure, and the
\* artifact holds the content of the write that completed last.
C10_LastWriterWins ==
    \A i, j \in Invocations :
        ( /\ i # j /\ Overlapped(i, j)
          /\ inv[i].file = inv[j].file
          /\ inv[i].writeOp # "none" /\ inv[j].writeOp # "none"
          /\ inv[i].targetPath = inv[j].targetPath
          /\ Terminal(inv[i]) /\ Terminal(inv[j])
          /\ NoStoreFault(inv[i]) /\ NoStoreFault(inv[j]) ) =>
            /\ inv[i].pc = "Done" /\ inv[j].pc = "Done"
            /\ files[inv[i].targetPath]
                   = inv[LastWriter(inv[i].targetPath)].finalContent

\* the notices of kind k that the invocation showed
NoticesOfKind(r, k) == {n \in 1..Len(r.notices) : r.notices[n].kind = k}

\* C11: an exception raised by the content read, the generation call, the
\* extraction, the folder step or the file write ends the invocation at once
\* in a Failed state with exactly one failure notice, which carries the
\* message of that exception.
C11_FailureContainment ==
    \A i \in Invocations :
        inv[i].raised # <<>> =>
            /\ inv[i].pc = "FailedException"
            /\ Cardinality(NoticesOfKind(inv[i], "failed")) = 1
            /\ inv[i].notices[Len(inv[i].notices)]
                   = Notice("failed", inv[i].raised[1])

\* the provider the specification's precedence picks from the service svc
\* under the configuration cfg
PreferredProvider(svc, cfg) ==
    LET available == {svc.providers[n] : n \in 1..Len(svc.providers)}
    IN IF cfg.selectedProviderId # "" /\ cfg.selectedProviderId \in available
       THEN cfg.selectedProviderId
       ELSE IF svc.main \in available THEN svc.main
       ELSE svc.providers[1]

\* C12: with the service available, the provider of the generation request
\* is the configured one if it is among the available providers, else the
\* service's main provider if it is, else the first available one; with an
\* empty provider list the invocation ends in Failed(NoProvider) and issues
\* no request.  The provider used is always one of the available ones.
C12_ProviderPrecedence ==
    \A i \in Invocations :
        (HasOp(inv[i], "providers") /\ ai.available) =>
            IF ai.providers = <<>>
            THEN /\ inv[i].pc = "FailedNoProvider"
                 /\ inv[i].provider = NoProvider /\ inv[i].prompt = Null
                 /\ ~HasOp(inv[i], "request")
            ELSE /\ inv[i].provider = PreferredProvider(ai, inv[i].cfgRequest)
                 /\ InSeq(inv[i].provider, ai.providers)
                 /\ HasOp(inv[i], "request")

\* the configured provider is gone and the main id does not resolve: the
\* first available provider is used
C12_Witness ==
    \E i \in Invocations :
        /\ inv[i].cfgRequest.selectedProviderId = "p1"
        /\ ai.providers = <<"p3", "p2">> /\ ai.main = "p9"
        /\ inv[i].provider = "p3" /\ HasOp(inv[i], "request")

\* the probed fields of raw that hold a non-empty string, by position
NonEmptyStringFields(raw) ==
    {n \in 1..Len(ProbedFields) :
        /\ Field(raw, ProbedFields[n]).t = "string"
        /\ Field(raw, ProbedFields[n]).s # <<>>}

\* C13: the extracted text is (a) a non-empty string result as it is, else
\* (b) the non-empty streaming buffer, else (c) for an object the first
\* probed field, in the order text, content, message, response, data,
\* result, that holds a non-empty string, else (d) for an object without
\* such a field its structural dump, else (e) any other non-null value
\* stringified, else (f) null.
C13_ExtractionPrecedence ==
    \A i \in Invocations :
        (inv[i].extracted \/ InSeq("TypeError", inv[i].raised)) =>
            LET raw == inv[i].result
                acc == inv[i].accumulatedText
                hits == NonEmptyStringFields(raw)
            IN /\ inv[i].extracted
               /\ IF raw.kind = "string" /\ raw.str # <<>>
                  THEN inv[i].text = raw.str
                  ELSE IF acc # <<>>
                  THEN inv[i].text = acc
                  ELSE IF raw.kind \in {"object", "cyclic"}
                  THEN IF hits # {}
                       THEN inv[i].text = Field(raw, ProbedFields[Min(hits)]).s
                       ELSE inv[i].text \notin {Null, <<>>}
                  ELSE IF raw.kind = "other"
                  THEN inv[i].text = raw.str
                  ELSE inv[i].text = Null

\* C14: every invocation was started on a file with extension md, and a run
\* of the command that reports unavailability starts no invocation and
\* changes no file and no folder.
C14_CommandAvailability ==
    [][/\ \A i \in 1..Len(inv') :
             /\ inv'[i].file \in DOMAIN files
             /\ Len(inv'[i].file) > 3
             /\ SubSeq(inv'[i].file, Len(inv'[i].file) - 2, Len(inv'[i].file))
                    = <<".", "m", "d">>
       /\ nRejected' # nRejected =>
             /\ nRejected' = nRejected + 1
             /\ inv' = inv /\ files' = files /\ folders' = folders
             /\ writeLog' = writeLog]_vars

\* the command was run with no markdown file active: one report, nothing else
C14_Witness ==
    /\ nRejected = 1 /\ inv = <<>> /\ writeLog = <<>>
    /\ files \in {SourceFiles, SourceFilesAndArtifact}

\* C15: the prompt sent, the destination path and the tag line and header
\* of the artifact are those of the configuration as it was when the
\* invocation started, whatever settings changes arrive while it is
\* suspended.
C15_ConfigSnapshot ==
    \A i \in Invocations :
        LET cfg == inv[i].cfgStart
            path == inv[i].file
            header == Trim(cfg.fileHeader)
        IN /\ inv[i].prompt # Null =>
                  inv[i].prompt = cfg.systemPrompt \o <<"\n", "\n">> \o inv[i].content
           /\ inv[i].targetPath # Null =>
                  inv[i].targetPath = Mirror(cfg.flashcardRoot, path)
           /\ inv[i].finalContent # Null =>
                  inv[i].finalContent =
                      <<"#">> \o cfg.flashcardTag \o <<"/">>
                      \o SubSeq(path, 1, Len(path) - 3) \o <<"\n", "\n">>
                      \o (IF header # <<>> THEN header \o <<"\n", "\n">> ELSE <<>>)
                      \o inv[i].clean

\* the positions of the file writes among the store operations of r
WriteOps(r) == {n \in 1..Len(r.ops) : r.ops[n] \in {"create", "modify"}}

\* C16: an invocation issues at most one file write, as its last store
\* operation; the files of the vault change only in a step that takes an
\* invocation to Done, and then only at its destination; so an invocation
\* that ends Skipped or Failed has created no file and changed none.
C16_WriteLastAndOnce ==
    [][/\ \A i \in 1..Len(inv') :
             /\ Cardinality(WriteOps(inv'[i])) <= 1
             /\ WriteOps(inv'[i]) \subseteq {Len(inv'[i].ops)}
             /\ Cardinality({n \in 1..Len(writeLog') : writeLog'[n] = i}) <= 1
             /\ (Terminal(inv'[i]) /\ inv'[i].pc # "Done") =>
                    \A n \in 1..Len(writeLog') : writeLog'[n] # i
       /\ files' # files =>
             \E i \in Invocations :
                 /\ inv[i].pc = "writing" /\ inv'[i].pc = "Done"
                 /\ \A p \in DOMAIN files :
                       p # inv[i].targetPath =>
                           p \in DOMAIN files' /\ files'[p] = files[p]
                 /\ DOMAIN files' = DOMAIN files \cup {inv[i].targetPath}]_vars

\* the overwrite of a prior artifact was rejected: the artifact is as before
C16_Witness ==
    \E i \in Invocations :
        /\ inv[i].pc = "FailedException" /\ inv[i].writeOp = "modify"
        /\ inv[i].targetPath = P_Fa
        /\ writeLog = <<>> /\ files[P_Fa] = OldArtifact

\* C17: a rejection of the folder creation that does not mean "the folder
\* already exists" ends the invocation in a Failed state with a failure
\* notice, and the invocation shows no success notice.
C17_OnlyExistsSwallowed ==
    \A i \in Invocations :
        (Terminal(inv[i]) /\ inv[i].mkdirErr = "other") =>
            /\ inv[i].pc = "FailedException"
            /\ NoticesOfKind(inv[i], "failed") # {}
            /\ NoticesOfKind(inv[i], "success") = {}

\* t begins with the marker m alone: m is followed by nothing or by white space
BeginsWithBareMarker(t, m) ==
    /\ IsPrefixSeq(m, t)
    /\ Len(t) = Len(m) \/ t[Len(m) + 1] \in Ws

\* C18: after the reasoning block is removed, a response that begins with
\* the bare marker "#<flashcardTag>" loses the marker and is trimmed; a
\* response that begins with a longer tag ("#<flashcardTag>/x",
\* "#<flashcardTag>X") is left as it is.
C18_BareTagOnly ==
    \A i \in Invocations :
        inv[i].clean # Null =>
            LET t == inv[i].cleanThink
                m == <<"#">> \o inv[i].cfgExec.flashcardTag
            IN inv[i].clean =
                   IF BeginsWithBareMarker(t, m) THEN Trim(Drop(t, Len(m))) ELSE t

\* text holds nothing but a leading reasoning block, an echoed "#<tag>" and
\* white space
OnlyNoise(text, tag) ==
    LET t1 == IF ThinkSpanEnds(text) # {}
              THEN Trim(Drop(text, Min(ThinkSpanEnds(text))))
              ELSE Trim(text)
        m == <<"#">> \o tag
    IN t1 = <<>> \/ (IsPrefixSeq(m, t1) /\ Trim(Drop(t1, Len(m))) = <<>>)

\* C19: a non-empty response that is empty after sanitation ends the
\* invocation in Failed(EmptyAfterSanitize): no destination is computed, no
\* folder or file is created or modified, and no success notice is shown.
C19_EmptyAfterSanitizeFails ==
    \A i \in Invocations :
        ( /\ inv[i].extracted
          /\ inv[i].text # Null /\ Trim(inv[i].text) # <<>>
          /\ OnlyNoise(inv[i].text, inv[i].cfgExec.flashcardTag) ) =>
            /\ inv[i].pc = "FailedEmptyAfterSanitize"
            /\ inv[i].notices[Len(inv[i].notices)] = Notice("empty-after-clean", "")
            /\ NoticesOfKind(inv[i], "success") = {}
            /\ OnlyOps(inv[i], {"skipcheck", "read", "providers", "request"})
            /\ inv[i].targetPath = Null /\ inv[i].writeOp = "none" /\ ~Wrote(i)
            /\ writeLog = <<>> => files \in {SourceFiles, SourceFilesAndArtifact}

\* a reasoning block followed by the echoed tag, with a prior artifact
C19_Witness ==
    \E i \in Invocations :
        /\ inv[i].file = P_a
        /\ inv[i].text = ThinkOpen \o <<"w">> \o ThinkClose \o <<"#", "f", "c", " ">>
        /\ inv[i].pc = "FailedEmptyAfterSanitize"
        /\ P_Fa \in DOMAIN files /\ files[P_Fa] = OldArtifact

\* the store and service operations of a complete invocation, in order
PipelineOrders ==
    {<<"skipcheck", "read", "providers", "request">> \o mid \o <<w>> :
        mid \in {<<>>, <<"exists">>, <<"exists", "createFolder">>},
        w \in {"create", "modify"}}

\* C20: the operations of an invocation come in the order skip check, read,
\* provider resolution, generation request, folder step, write; there is at
\* most one request; extraction and sanitation follow the request and
\* precede the destination; the write needs a non-empty sanitized text; the
\* success notice comes last, after the write has completed.
C20_PipelineOrder ==
    \A i \in Invocations :
        /\ \E full \in PipelineOrders : IsPrefixSeq(inv[i].ops, full)
        /\ Cardinality({n \in 1..Len(inv[i].ops) : inv[i].ops[n] = "request"}) <= 1
        /\ HasOp(inv[i], "request") =>
               inv[i].content # Null /\ inv[i].provider # NoProvider
        /\ inv[i].extracted => HasOp(inv[i], "request")
        /\ inv[i].clean # Null => inv[i].extracted
        /\ inv[i].targetPath # Null => inv[i].clean \notin {Null, <<>>}
        /\ inv[i].writeOp # "none" =>
               inv[i].targetPath # Null /\ inv[i].clean \notin {Null, <<>>}
        /\ NoticesOfKind(inv[i], "success") # {} =>
               /\ Wrote(i) /\ inv[i].pc = "Done"
               /\ NoticesOfKind(inv[i], "success") = {Len(inv[i].notices)}

\* a complete run that had to create the destination folder
C20_Witness ==
    \E i \in Invocations :
        /\ inv[i].pc = "Done"
        /\ inv[i].ops = <<"skipcheck", "read", "providers", "request",
                          "exists", "createFolder", "create">>
        /\ inv[i].notices[Len(inv[i].notices)] = Notice("success", "")

\* C21: every started invocation reaches a terminal state (Skipped, one of
\* the Failed states, or Done), provided every call it awaits returns or
\* throws, and once there it takes no further step.
C21_Termination ==
    /\ \A i \in 1..MaxInvSeq :
          (Len(inv) >= i) ~> (Len(inv) >= i /\ Terminal(inv[i]))
    /\ [][\A i \in Invocations : Terminal(inv[i]) => inv'[i] = inv[i]]_vars

\* an invocation that went through every await and ended in the catch block
C21_Witness ==
    \E i \in Invocations :
        /\ inv[i].pc = "FailedException"
        /\ inv[i].raised = <<"createFolder failed", "ENOENT">>
        /\ Len(inv[i].ops) = 7

\* C22: whatever texts were typed into the tag setting, the stored tag label
\* neither begins with "#" nor ends with "/", and the tag line of an artifact
\* begins with exactly one "#".
C22_TagNormalized ==
    /\ settings.flashcardTag # <<>> =>
          /\ Head(settings.flashcardTag) # "#"
          /\ settings.flashcardTag[Len(settings.flashcardTag)] # "/"
    /\ \A i \in Invocations :
          inv[i].finalContent # Null =>
              inv[i].finalContent[1] = "#" /\ inv[i].finalContent[2] # "#"

\* j was run on the artifact that the completed invocation i wrote, and read
\* it as i left it, with the tag label i wrote it under
RunOnArtifactOf(i, j) ==
    /\ inv[i].pc = "Done" /\ i \in inv[j].doneBefore
    /\ inv[j].file = inv[i].targetPath
    /\ inv[j].content = inv[i].artifactAfter
    /\ inv[j].cfgRead.flashcardTag = inv[i].cfgWrite.flashcardTag

\* C23: every artifact begins with "#<flashcardTag>/" (tag label as of the
\* write); an invocation that reads such an artifact under the same tag
\* label, the path check having let it through, ends in Skipped at the
\* content check: no provider lookup, no generation request, no write.
C23_NoFeedbackLoop ==
    /\ \A i \in Invocations :
          inv[i].finalContent # Null =>
              IsPrefixSeq(<<"#">> \o inv[i].cfgWrite.flashcardTag \o <<"/">>,
                          inv[i].finalContent)
    /\ \A i, j \in Invocations :
          RunOnArtifactOf(i, j) =>
              /\ inv[j].pc = "Skipped"
              /\ inv[j].notices = <<Notice("skip-content", "")>>
              /\ inv[j].ops = <<"skipcheck", "read">>
              /\ inv[j].prompt = Null /\ inv[j].writeOp = "none" /\ ~Wrote(j)
              /\ writeLog[Len(writeLog)] = i =>
                     files[inv[j].file] = inv[i].artifactAfter

\* the output root was changed after the artifact was written, so that the
\* artifact is no longer under it
C23_Witness ==
    \E i, j \in Invocations :
        /\ RunOnArtifactOf(i, j)
        /\ inv[j].file = P_Fa
        /\ ~LocatedUnderSkipEntry(inv[j].file, inv[j].cfgStart)
        /\ inv[j].pc = "Skipped"

=============================================================================
